---- MODULE Spec2Model ----
(***************************************************************************)
(* A model of cita-secp256k1's signature.rs: the 65-byte Signature         *)
(* container, its range predicates, its two serialization adapters and     *)
(* the sign / verify / recover glue around the curve engine.               *)
(*                                                                         *)
(* A run is one use of the API: a Signature is constructed (from_rsv,      *)
(* sign, a decode), then one operation is applied to it; an encoding may   *)
(* be followed by the matching decoding.  Results are records              *)
(*   [kind |-> "ok" | "err" | "panic", val |-> ...]                        *)
(* where "panic" is a Rust panic (unwrap on Err, a failed assert, a        *)
(* slice-length mismatch in copy_from_slice).                              *)
(***************************************************************************)
EXTENDS Integers, Sequences, FiniteSets, TLC

VARIABLES
    pc,     \* "new", "have" (a Signature is held), "rlp" / "seq" (it was encoded), "done"
    sig,    \* the Signature held: 65 bytes (NoSig before construction)
    made,   \* how sig was constructed, with the inputs of that construction
    wire,   \* the encoded form last written, or the input last decoded
    op,     \* the last operation
    arg,    \* its inputs other than sig and wire
    ret,    \* its result
    trace   \* the curve-engine calls it made, in order, each with its outcome

vars == <<pc, sig, made, wire, op, arg, ret, trace>>

(***************************************************************************)
(* Bounds of the model.                                                    *)
(***************************************************************************)
\* scalars are sampled at distance <= MaxDelta around each boundary value
MaxDelta == 1
\* buffers and element sequences are sampled with lengths 65 +- MaxExtra
MaxExtra == 2
\* message digests 0 .. MaxMsg (and one digest with every byte 0xFF)
MaxMsg == 2
\* private keys 1 .. MaxKey (and the out-of-range ones)
MaxKey == 3
\* recovery bytes 0 .. MaxV (and 255)
MaxV == 4
\* fill patterns 0 .. MaxSeed of the sampled buffers
MaxSeed == 1

SIGNATURE_BYTES_LEN == 65

(***************************************************************************)
(* Results.                                                                *)
(***************************************************************************)
Ok(x) == [kind |-> "ok", val |-> x]
Err(e) == [kind |-> "err", val |-> e]
Panic(m) == [kind |-> "panic", val |-> m]

NoResult == [kind |-> "none", val |-> "none"]

\* Result::unwrap: the value, or a panic carrying the error
unwrap(res) == IF res.kind = "ok" THEN res ELSE Panic(res.val)

(***************************************************************************)
(* Byte strings.                                                           *)
(***************************************************************************)
Slice(bytes, from, to) == SubSeq(bytes, from + 1, to)

Zeros(len) == [i \in 1..len |-> 0]

\* the value of a short big-endian byte string, reduced modulo m at each step
RECURSIVE BeMod(_, _)
BeMod(bytes, m) ==
    IF bytes = <<>> THEN 0
    ELSE (BeMod(SubSeq(bytes, 1, Len(bytes) - 1), m) * 256 + bytes[Len(bytes)]) % m

(***************************************************************************)
(* H256 (cita_types re-exports the fixed-hash type): 32 bytes, ordered as  *)
(* byte strings; from_str reads exactly 64 hex digits.                     *)
(***************************************************************************)
HashLen == 32

LowerDigits == <<"0","1","2","3","4","5","6","7","8","9","a","b","c","d","e","f">>
UpperDigits == <<"0","1","2","3","4","5","6","7","8","9","A","B","C","D","E","F">>

IsHexDigit(c) == \E i \in 1..16 : LowerDigits[i] = c \/ UpperDigits[i] = c

HexVal(c) == (CHOOSE i \in 1..16 : LowerDigits[i] = c \/ UpperDigits[i] = c) - 1

\* H256::from_str: Err unless the text is 2 * 32 hex digits
from_str(text) ==
    IF \E i \in 1..Len(text) : ~IsHexDigit(text[i]) THEN Err("InvalidHexCharacter")
    ELSE IF Len(text) # 2 * HashLen THEN Err("InvalidHexLength")
    ELSE Ok([i \in 1..HashLen |-> 16 * HexVal(text[2 * i - 1]) + HexVal(text[2 * i])])

\* H256::from_slice: asserts the length and copies
from_slice(bytes) == IF Len(bytes) = HashLen THEN Ok(bytes) ELSE Panic("from_slice: length")

\* Ord for H256: the order of the byte strings (-1, 0, 1)
H256_cmp(a, b) ==
    IF a = b THEN 0
    ELSE LET i == CHOOSE k \in 1..HashLen :
                      a[k] # b[k] /\ \A j \in 1..(k - 1) : a[j] = b[j]
         IN  IF a[i] < b[i] THEN -1 ELSE 1

\* the literals of is_low_s and is_valid, digit by digit
HALF_N_HEX ==
    <<"7","F","F","F","F","F","F","F","F","F","F","F","F","F","F","F","F","F","F","F","F",
      "F","F","F","F","F","F","F","F","F","F","F","5","D","5","7","6","E","7","3","5","7",
      "A","4","5","0","1","D","D","F","E","9","2","F","4","6","6","8","1","B","2","0","A",
      "0">>

N_HEX ==
    <<"f","f","f","f","f","f","f","f","f","f","f","f","f","f","f","f","f","f","f","f","f",
      "f","f","f","f","f","f","f","f","f","f","e","b","a","a","e","d","c","e","6","a","f",
      "4","8","a","0","3","b","b","f","d","2","5","e","8","c","d","0","3","6","4","1","4",
      "1">>

ONE_HEX == <<"1">>

(***************************************************************************)
(* Signature: r (bytes 0..32), s (bytes 32..64), v (byte 64).              *)
(***************************************************************************)
r(signature) == Slice(signature, 0, 32)

s(signature) == Slice(signature, 32, 64)

v(signature) == signature[65]

from_rsv(rr, ss, vv) == rr \o ss \o <<vv>>

\* a && b for results of bool: b is evaluated only when a is true
AndAlso(a, b) == IF a.kind # "ok" THEN a ELSE IF a.val THEN b ELSE a

\* lhs `rel` rhs, where either side may have panicked
Compare(lhs, rhs, rel) ==
    IF lhs.kind # "ok" THEN lhs
    ELSE IF rhs.kind # "ok" THEN rhs
    ELSE Ok(H256_cmp(lhs.val, rhs.val) \in rel)

LT == {-1}
LE == {-1, 0}
GE == {0, 1}

is_low_s_strict(signature) ==
    Compare(from_slice(s(signature)), unwrap(from_str(HALF_N_HEX)), LT)

is_low_s(signature) ==
    Compare(from_slice(s(signature)), unwrap(from_str(HALF_N_HEX)), LE)

is_valid(signature) ==
    AndAlso(Ok(v(signature) <= 1),
    AndAlso(Compare(from_slice(r(signature)), unwrap(from_str(N_HEX)), LT),
    AndAlso(Compare(from_slice(r(signature)), unwrap(from_str(ONE_HEX)), GE),
    AndAlso(Compare(from_slice(s(signature)), unwrap(from_str(N_HEX)), LT),
            Compare(from_slice(s(signature)), unwrap(from_str(ONE_HEX)), GE)))))

(***************************************************************************)
(* The fixed-length binary adapter (RLP).  rlp_append writes the 65 bytes  *)
(* as one RLP byte string; decode hands the payload of an RLP byte string  *)
(* to a closure that copies it into a [u8; 65].                            *)
(***************************************************************************)
\* the big-endian bytes of a length, without leading zeros (below 2^16)
SizeBytes(len) == IF len < 256 THEN <<len>> ELSE <<len \div 256, len % 256>>

\* rlp's encode_value
encode_value(value) ==
    IF Len(value) = 0 THEN <<128>>
    ELSE IF Len(value) = 1 /\ value[1] < 128 THEN <<value[1]>>
    ELSE IF Len(value) <= 55 THEN <<128 + Len(value)>> \o value
    ELSE <<183 + Len(SizeBytes(Len(value)))>> \o SizeBytes(Len(value)) \o value

rlp_append_short(signature) == encode_value(Slice(signature, 0, 64))

\* impl Encodable for Signature
rlp_append(signature) == encode_value(Slice(signature, 0, 65))

\* rlp's decode_usize, for the length fields the model's buffers hold
decode_usize(bytes) ==
    IF Len(bytes) > 8 THEN Err("RlpIsTooBig")
    ELSE IF bytes[1] = 0 THEN Err("RlpInvalidIndirection")
    ELSE Ok(BeMod(bytes, 16777216))

\* rlp's decode_value up to the call of the closure: the payload, or the error
decode_value(raw) ==
    IF Len(raw) = 0 THEN Err("RlpIsTooShort")
    ELSE LET l == raw[1] IN
    IF l <= 127 THEN Ok(<<l>>)
    ELSE IF l <= 183 THEN
        LET last_index_of == 1 + l - 128 IN
        IF Len(raw) < last_index_of THEN Err("RlpInconsistentLengthAndData")
        ELSE IF l = 129 /\ raw[2] < 128 THEN Err("RlpInvalidIndirection")
        ELSE Ok(Slice(raw, 1, last_index_of))
    ELSE IF l <= 191 THEN
        LET len_of_len == l - 183
            begin_of_value == 1 + len_of_len
        IN  IF Len(raw) < begin_of_value THEN Err("RlpInconsistentLengthAndData")
            ELSE LET len == decode_usize(Slice(raw, 1, begin_of_value)) IN
                 IF len.kind # "ok" THEN len
                 ELSE IF Len(raw) < begin_of_value + len.val
                      THEN Err("RlpInconsistentLengthAndData")
                      ELSE Ok(Slice(raw, begin_of_value, begin_of_value + len.val))
    ELSE Err("RlpExpectedToBeData")

\* dst.copy_from_slice(src): panics unless the lengths are equal
copy_from_slice(dstLen, src) ==
    IF Len(src) = dstLen THEN Ok(src)
    ELSE Panic("source slice length does not match destination slice length")

\* impl Decodable for Signature
decode(raw) ==
    LET bytes == decode_value(raw) IN
    IF bytes.kind # "ok" THEN bytes ELSE copy_from_slice(65, bytes.val)

\* impl From<&[u8]> for Signature
from_bytes(slice) ==
    IF Len(slice) # SIGNATURE_BYTES_LEN THEN Panic("assertion failed: slice.len() == 65")
    ELSE copy_from_slice(65, slice)

(***************************************************************************)
(* The element-sequence adapter (serde).  A serializer receives the        *)
(* announced length and the elements; a SeqAccess hands out the elements   *)
(* of its input one by one.                                                *)
(***************************************************************************)
RECURSIVE serialize_elements(_, _, _)
serialize_elements(signature, i, seq) ==
    IF i >= SIGNATURE_BYTES_LEN THEN seq
    ELSE serialize_elements(signature, i + 1, Append(seq, signature[i + 1]))

\* impl Serialize for Signature
serialize(signature) ==
    [len |-> SIGNATURE_BYTES_LEN, elems |-> serialize_elements(signature, 0, <<>>)]

\* SeqAccess::next_element over the elements not yet consumed
next_element(elems, consumed) ==
    IF consumed < Len(elems) THEN [some |-> TRUE, val |-> elems[consumed + 1]]
    ELSE [some |-> FALSE, val |-> 0]

\* the loop of SignatureVisitor::visit_seq from index i on
RECURSIVE visit_loop(_, _, _, _, _)
visit_loop(elems, consumed, signature, i, bound) ==
    IF i >= bound THEN [res |-> Ok(signature), consumed |-> consumed]
    ELSE LET e == next_element(elems, consumed) IN
         IF e.some
         THEN visit_loop(elems, consumed + 1, [signature EXCEPT ![i + 1] = e.val],
                         i + 1, bound)
         ELSE [res |-> Err([invalid_length |-> SIGNATURE_BYTES_LEN]),
               consumed |-> consumed]

visit_seq_short(elems) ==
    visit_loop(elems, 0, Zeros(SIGNATURE_BYTES_LEN), 0, SIGNATURE_BYTES_LEN - 1)

\* SignatureVisitor::visit_seq: the result and the number of elements consumed
visit_seq(elems) ==
    visit_loop(elems, 0, Zeros(SIGNATURE_BYTES_LEN), 0, SIGNATURE_BYTES_LEN)

\* impl Deserialize for Signature
deserialize(elems) == visit_seq(elems)

(***************************************************************************)
(* The curve engine (the secp256k1 crate behind SECP256K1), as recoverable *)
(* ECDSA over a curve small enough to enumerate: y^2 = x^3 + 7 over F_43,  *)
(* a group of prime order 31.  Scalars and coordinates keep their 32-byte  *)
(* big-endian form, so the byte layouts of the glue are those of the code. *)
(***************************************************************************)
Curve == [p |-> 43, n |-> 31, b |-> 7, G |-> <<2, 12>>]

Inf == <<>>

Be32(x) == Zeros(31) \o <<x>>

\* a 32-byte big-endian number is below m (m < 256)
Below(bytes, m) == (\A i \in 1..31 : bytes[i] = 0) /\ bytes[32] < m

Inv(a, m) == CHOOSE x \in 1..(m - 1) : (a * x) % m = 1

\* the inverses modulo the field prime and modulo the group order
InvP == [a \in 1..(Curve.p - 1) |-> Inv(a, Curve.p)]

InvN == [a \in 1..(Curve.n - 1) |-> Inv(a, Curve.n)]

OnCurve(x, y) == (y * y) % Curve.p = (x * x * x + Curve.b) % Curve.p

Points == { <<x, y>> : x \in 0..(Curve.p - 1), y \in 0..(Curve.p - 1) }

Group == { P \in Points : OnCurve(P[1], P[2]) } \cup {Inf}

Chord(P, Q) ==
    IF P = Inf THEN Q
    ELSE IF Q = Inf THEN P
    ELSE IF P[1] = Q[1] /\ (P[2] + Q[2]) % Curve.p = 0 THEN Inf
    ELSE LET lam == IF P = Q
                    THEN (3 * P[1] * P[1] * InvP[(2 * P[2]) % Curve.p]) % Curve.p
                    ELSE ((Q[2] - P[2]) * InvP[(Q[1] - P[1]) % Curve.p]) % Curve.p
             x3 == (lam * lam - P[1] - Q[1]) % Curve.p
         IN  <<x3, (lam * (P[1] - x3) - P[2]) % Curve.p>>

\* the group law, tabulated
Sum == [P \in Group |-> [Q \in Group |-> Chord(P, Q)]]

PtAdd(P, Q) == Sum[P][Q]

RECURSIVE Times(_, _)
Times(k, P) == IF k = 0 THEN Inf ELSE PtAdd(P, Times(k - 1, P))

\* k * P for 0 <= k < n, tabulated
Product == [k \in 0..(Curve.n - 1) |-> [P \in Group |-> Times(k, P)]]

PtMul(k, P) == Product[k][P]

PtNeg(P) == IF P = Inf THEN Inf ELSE <<P[1], (Curve.p - P[2]) % Curve.p>>

IsHigh(x) == x > Curve.n \div 2

\* RecoveryId::from_i32
RecoveryId_from_i32(id) == IF id \in 0..3 THEN Ok(id) ELSE Err("InvalidRecoveryId")

\* RecoverableSignature::from_compact: r and s must not overflow the group order
from_compact(data, recid) ==
    IF Len(data) # 64 THEN Err("InvalidSignature")
    ELSE IF ~Below(SubSeq(data, 1, 32), Curve.n) \/ ~Below(SubSeq(data, 33, 64), Curve.n)
    THEN Err("InvalidSignature")
    ELSE Ok([r |-> data[32], s |-> data[64], recid |-> recid])

\* RecoverableSignature::to_standard
to_standard(rsig) == [r |-> rsig.r, s |-> rsig.s]

\* RecoverableSignature::serialize_compact
serialize_compact(rsig) == [rec_id |-> rsig.recid, data |-> Be32(rsig.r) \o Be32(rsig.s)]

\* PublicKey::from_slice on the 65-byte uncompressed form
PublicKey_from_slice(data) ==
    IF Len(data) # 65 \/ data[1] # 4 THEN Err("InvalidPublicKey")
    ELSE IF ~Below(SubSeq(data, 2, 33), Curve.p) \/ ~Below(SubSeq(data, 34, 65), Curve.p)
    THEN Err("InvalidPublicKey")
    ELSE IF ~OnCurve(data[33], data[65]) THEN Err("InvalidPublicKey")
    ELSE Ok(<<data[33], data[65]>>)

\* PublicKey::serialize_uncompressed
serialize_uncompressed(P) == <<4>> \o Be32(P[1]) \o Be32(P[2])

\* Message::from_slice: a digest of 32 bytes, read modulo the group order
Message_from_slice(data) ==
    IF Len(data) # 32 THEN Err("InvalidMessage") ELSE Ok(BeMod(data, Curve.n))

\* a secret key the engine accepts: 1 <= key < n
ValidSecret(sec) == Below(sec, Curve.n) /\ sec[32] # 0

\* the signature nonce k makes for secret d and digest z
SignWith(z, d, k) ==
    LET R == PtMul(k, Curve.G)
        rr == R[1] % Curve.n
        ss == (InvN[k] * (z + rr * d)) % Curve.n
        id == (IF R[1] >= Curve.n THEN 2 ELSE 0) + (R[2] % 2)
    IN  IF IsHigh(ss)
        THEN [r |-> rr, s |-> Curve.n - ss, recid |-> IF id % 2 = 1 THEN id - 1 ELSE id + 1]
        ELSE [r |-> rr, s |-> ss, recid |-> id]

\* the nonces the engine's retry loop can end on
UsableNonce(z, d, k) == SignWith(z, d, k).r # 0 /\ SignWith(z, d, k).s # 0

\* Secp256k1::sign_ecdsa_recoverable: it returns no Result and asserts that the
\* engine signed, which it does not for a key outside 1 .. n - 1
sign_ecdsa_recoverable(msg, sec, k) ==
    IF ~ValidSecret(sec) THEN Panic("assertion failed: sign_recoverable == 1")
    ELSE Ok(SignWith(msg, sec[32], k))

\* Secp256k1::verify_ecdsa
verify_ecdsa(msg, esig, pk) ==
    IF esig.r = 0 \/ esig.s = 0 \/ IsHigh(esig.s) THEN Err("IncorrectSignature")
    ELSE LET w == InvN[esig.s]
             X == PtAdd(PtMul((msg * w) % Curve.n, Curve.G),
                        PtMul((esig.r * w) % Curve.n, pk))
         IN  IF X # Inf /\ X[1] % Curve.n = esig.r THEN Ok(TRUE)
             ELSE Err("IncorrectSignature")

\* Secp256k1::recover_ecdsa
recover_ecdsa(msg, rsig) ==
    IF rsig.r = 0 \/ rsig.s = 0 THEN Err("InvalidSignature")
    ELSE LET x == rsig.r + (IF rsig.recid >= 2 THEN Curve.n ELSE 0)
             ys == { y \in 0..(Curve.p - 1) : OnCurve(x, y) /\ y % 2 = rsig.recid % 2 }
         IN  IF x >= Curve.p \/ ys = {} THEN Err("InvalidSignature")
             ELSE LET R == <<x, CHOOSE y \in ys : TRUE>>
                      w == InvN[rsig.r]
                      Q == PtAdd(PtMul((rsig.s * w) % Curve.n, R),
                                 PtNeg(PtMul((msg * w) % Curve.n, Curve.G)))
                  IN  IF Q = Inf THEN Err("InvalidSignature") ELSE Ok(Q)

\* the public key of a private key, without the format tag (KeyPair)
pubkey_of(privkey) == SubSeq(serialize_uncompressed(PtMul(privkey[32], Curve.G)), 2, 65)

(***************************************************************************)
(* sign, verify_public and recover: each returns its result and the engine *)
(* calls it made.  `?` is a return of the Err; the free functions and the  *)
(* methods of impl Sign have the same bodies, except that Sign::sign       *)
(* unwraps the message where sign uses `?`.                                *)
(***************************************************************************)
Call(fn, out) == [fn |-> fn, out |-> out]

Done(res, calls) == [res |-> res, calls |-> calls]

\* data_arr[0..64] = data; data_arr[64] = rec_id as u8
pack(packed) == SubSeq(packed.data, 1, 64) \o <<packed.rec_id>>

\* the part of sign after the message is at hand
sign_with_message(privkey, msg, k) ==
    LET e == sign_ecdsa_recoverable(msg, privkey, k)
        calls == <<Call("sign_ecdsa_recoverable", e)>>
    IN  IF e.kind # "ok" THEN Done(e, calls)
        ELSE Done(Ok(pack(serialize_compact(e.val))), calls)

\* pub fn sign
sign(privkey, message, k) ==
    LET m == Message_from_slice(message) IN
    IF m.kind # "ok" THEN Done(m, <<>>) ELSE sign_with_message(privkey, m.val, k)

\* Sign::sign
Sign_sign(privkey, message, k) ==
    LET m == unwrap(Message_from_slice(message)) IN
    IF m.kind # "ok" THEN Done(m, <<>>) ELSE sign_with_message(privkey, m.val, k)

recovery_id_masked(signature) == RecoveryId_from_i32(signature[65] % 4)

\* RecoveryId::from_i32(i32::from(signature[64]))
recovery_id(signature) == RecoveryId_from_i32(signature[65])

pdata_untagged(pubkey) == pubkey \o <<4>>

\* temp = [4u8; 65]; temp[1..65].copy_from_slice(pubkey)
pdata(pubkey) == <<4>> \o pubkey

match_verify_strict(out) ==
    IF out.kind = "ok" THEN Ok(TRUE) ELSE Err(out.val)

\* the match on the engine's verdict
match_verify(out) ==
    IF out.kind = "ok" THEN Ok(TRUE)
    ELSE IF out = Err("IncorrectSignature") THEN Ok(FALSE)
    ELSE Err(out.val)

\* pub fn verify_public and Sign::verify_public
verify_public(pubkey, signature, message) ==
    LET id == recovery_id(signature)
        c1 == <<Call("RecoveryId::from_i32", id)>>
    IN  IF id.kind # "ok" THEN Done(id, c1) ELSE
    LET rsig == from_compact(SubSeq(signature, 1, 64), id.val)
        c2 == Append(c1, Call("from_compact", rsig))
    IN  IF rsig.kind # "ok" THEN Done(rsig, c2) ELSE
    LET pk == PublicKey_from_slice(pdata(pubkey))
        c3 == Append(c2, Call("PublicKey::from_slice", pk))
    IN  IF pk.kind # "ok" THEN Done(pk, c3) ELSE
    LET m == Message_from_slice(message)
        c4 == Append(c3, Call("Message::from_slice", m))
    IN  IF m.kind # "ok" THEN Done(m, c4) ELSE
    LET out == verify_ecdsa(m.val, to_standard(rsig.val), pk.val)
    IN  Done(match_verify(out), Append(c4, Call("verify_ecdsa", out)))

strip_first_64(serialized) == SubSeq(serialized, 1, 64)

\* pubkey.0.copy_from_slice(&serialized[1..65])
strip_tag(serialized) == SubSeq(serialized, 2, 65)

\* pub fn recover and Sign::recover
recover(signature, message) ==
    LET id == recovery_id(signature)
        c1 == <<Call("RecoveryId::from_i32", id)>>
    IN  IF id.kind # "ok" THEN Done(id, c1) ELSE
    LET rsig == from_compact(SubSeq(signature, 1, 64), id.val)
        c2 == Append(c1, Call("from_compact", rsig))
    IN  IF rsig.kind # "ok" THEN Done(rsig, c2) ELSE
    LET m == Message_from_slice(message)
        c3 == Append(c2, Call("Message::from_slice", m))
    IN  IF m.kind # "ok" THEN Done(m, c3) ELSE
    LET publ == recover_ecdsa(m.val, rsig.val)
        c4 == Append(c3, Call("recover_ecdsa", publ))
    IN  IF publ.kind # "ok" THEN Done(publ, c4)
        ELSE Done(Ok(strip_tag(serialize_uncompressed(publ.val))), c4)

(***************************************************************************)
(* Scalars the runs are fed with: a boundary value plus a small offset.    *)
(* <<b, d>> stands for the integer Base[b] + d; the bases are more than    *)
(* 2 * MaxDelta apart, so the integers are ordered as the pairs are.       *)
(***************************************************************************)
At == [zero |-> 1, half |-> 2, top_bit |-> 3, order |-> 4, all_ones |-> 5]

\* 0, floor(n / 2), 2^255, n and 2^256 - 1 as big-endian bytes
Base ==
    << Zeros(32),
       <<127,255,255,255,255,255,255,255,255,255,255,255,255,255,255,255,93,87,110,115,87,
         164,80,29,223,233,47,70,104,27,32,160>>,
       <<128>> \o Zeros(31),
       <<255,255,255,255,255,255,255,255,255,255,255,255,255,255,255,254,186,174,220,230,
         175,72,160,59,191,210,94,140,208,54,65,65>>,
       [i \in 1..32 |-> 255] >>

Scalars ==
    { <<b, d>> \in (1..5) \X (-MaxDelta..MaxDelta) :
          /\ b = At.zero => d >= 0
          /\ b = At.all_ones => d <= 0 }

\* bytes + 1 and bytes - 1 (never overflowing on the scalars above)
RECURSIVE Succ(_)
Succ(bytes) ==
    LET n == Len(bytes) IN
    IF bytes[n] < 255 THEN [bytes EXCEPT ![n] = @ + 1]
    ELSE Succ(SubSeq(bytes, 1, n - 1)) \o <<0>>

RECURSIVE Pred(_)
Pred(bytes) ==
    LET n == Len(bytes) IN
    IF bytes[n] > 0 THEN [bytes EXCEPT ![n] = @ - 1]
    ELSE Pred(SubSeq(bytes, 1, n - 1)) \o <<255>>

RECURSIVE Shift(_, _)
Shift(bytes, d) ==
    IF d = 0 THEN bytes
    ELSE IF d > 0 THEN Shift(Succ(bytes), d - 1)
    ELSE Shift(Pred(bytes), d + 1)

ScalarBytes(x) == Shift(Base[x[1]], x[2])

\* x < y and x <= y on the integers the pairs stand for
Less(x, y) == x[1] < y[1] \/ (x[1] = y[1] /\ x[2] < y[2])

AtMost(x, y) == x = y \/ Less(x, y)

(***************************************************************************)
(* The state machine.                                                      *)
(***************************************************************************)
NoSig == <<>>

NoArg == [none |-> TRUE]

VInputs == (0..MaxV) \cup {255}

Init ==
    /\ pc = "new"
    /\ sig = NoSig
    /\ made = [by |-> "none"]
    /\ wire = <<>>
    /\ op = "none"
    /\ arg = NoArg
    /\ ret = NoResult
    /\ trace = <<>>

\* Signature::from_rsv
FromRsv ==
    /\ pc = "new"
    /\ \E x \in Scalars, y \in Scalars, vv \in VInputs :
          /\ sig' = from_rsv(ScalarBytes(x), ScalarBytes(y), vv)
          /\ made' = [by |-> "from_rsv", r |-> x, s |-> y, v |-> vv]
    /\ pc' = "have"
    /\ op' = "from_rsv"
    /\ ret' = NoResult
    /\ UNCHANGED <<wire, arg, trace>>

\* Signature::is_low_s(&self)
IsLowS ==
    /\ pc = "have"
    /\ op' = "is_low_s"
    /\ ret' = is_low_s(sig)
    /\ pc' = "done"
    /\ UNCHANGED <<sig, made, wire, arg, trace>>

\* Signature::is_valid(&self)
IsValid ==
    /\ pc = "have"
    /\ op' = "is_valid"
    /\ ret' = is_valid(sig)
    /\ pc' = "done"
    /\ UNCHANGED <<sig, made, wire, arg, trace>>

(***************************************************************************)
(* Buffers the decoders are fed with.                                      *)
(***************************************************************************)
Lens ==
    {0, 1, 55, 56}
        \cup ((SIGNATURE_BYTES_LEN - MaxExtra)..(SIGNATURE_BYTES_LEN + MaxExtra))

Fill(len, seed) == [i \in 1..len |-> (i * 37 + seed * 101) % 256]

Buffers == { Fill(len, seed) : len \in Lens, seed \in 0..MaxSeed }

\* not RLP byte strings: nothing, a list, a payload cut short, a padded length
Malformed ==
    { <<>>, <<192>>, <<184>>, <<129, 5>>,
      <<184, 65>> \o Fill(10, 0),
      <<185, 0, 65>> \o Fill(65, 0) }

RlpInputs == { encode_value(b) : b \in Buffers } \cup Malformed

\* Encodable::rlp_append on the Signature held
RlpAppend ==
    /\ pc = "have"
    /\ op' = "rlp_append"
    /\ wire' = rlp_append(sig)
    /\ ret' = Ok(wire')
    /\ pc' = "rlp"
    /\ UNCHANGED <<sig, made, arg, trace>>

\* Decodable::decode, on what rlp_append wrote or on a buffer from outside
RlpDecode ==
    /\ \/ pc = "rlp" /\ wire' = wire /\ arg' = [input |-> "encoded"]
       \/ pc = "new" /\ wire' \in RlpInputs /\ arg' = [input |-> "outside"]
    /\ op' = "decode"
    /\ ret' = decode(wire')
    /\ pc' = "done"
    /\ UNCHANGED <<sig, made, trace>>

\* Signature::from(&[u8])
FromSlice ==
    /\ pc = "new"
    /\ wire' \in Buffers
    /\ op' = "from_bytes"
    /\ ret' = from_bytes(wire')
    /\ pc' = "done"
    /\ UNCHANGED <<sig, made, arg, trace>>

\* Serialize::serialize on the Signature held
Serialize ==
    /\ pc = "have"
    /\ op' = "serialize"
    /\ wire' = serialize(sig).elems
    /\ ret' = Ok(serialize(sig))
    /\ pc' = "seq"
    /\ UNCHANGED <<sig, made, arg, trace>>

\* Deserialize::deserialize, on what serialize wrote or on a sequence from outside
Deserialize ==
    /\ \/ pc = "seq" /\ wire' = wire /\ arg' = [input |-> "encoded"]
       \/ pc = "new" /\ wire' \in Buffers /\ arg' = [input |-> "outside"]
    /\ op' = "deserialize"
    /\ ret' = deserialize(wire')
    /\ pc' = "done"
    /\ UNCHANGED <<sig, made, trace>>

(***************************************************************************)
(* Keys, digests and public keys the engine operations are fed with.       *)
(***************************************************************************)
AllOnes(len) == [i \in 1..len |-> 255]

\* in range: 1 .. MaxKey and n - 1; out of range: 0, n and 2^256 - 1
KeyInputs ==
    { Be32(d) : d \in (1..MaxKey) \cup {Curve.n - 1} }
        \cup { Be32(0), Be32(Curve.n), AllOnes(32) }

MsgInputs == { Be32(z) : z \in 0..MaxMsg } \cup { AllOnes(32) }

\* the keys of the private keys in range, and three that are no curve point
PubInputs ==
    { pubkey_of(k) : k \in { q \in KeyInputs : ValidSecret(q) } }
        \cup { Zeros(64), AllOnes(64), Be32(1) \o Be32(1) }

\* sign and Sign::sign; the engine's nonce is any nonce its retry loop can end on
DoSign ==
    /\ pc = "new"
    /\ \E privkey \in KeyInputs, message \in MsgInputs, api \in {"sign", "Sign::sign"},
          k \in 1..(Curve.n - 1) :
          /\ IF ValidSecret(privkey)
             THEN UsableNonce(BeMod(message, Curve.n), privkey[32], k)
             ELSE k = 1
          /\ LET out == IF api = "sign" THEN sign(privkey, message, k)
                        ELSE Sign_sign(privkey, message, k)
             IN  /\ ret' = out.res
                 /\ trace' = out.calls
                 /\ sig' = IF out.res.kind = "ok" THEN out.res.val ELSE NoSig
                 /\ pc' = IF out.res.kind = "ok" THEN "have" ELSE "done"
          /\ made' = [by |-> "sign", privkey |-> privkey, message |-> message, api |-> api]
    /\ op' = "sign"
    /\ UNCHANGED <<wire, arg>>

\* verify_public and Sign::verify_public on the Signature held
VerifyPublic ==
    /\ pc = "have"
    /\ \E pubkey \in PubInputs, message \in MsgInputs :
          /\ arg' = [pubkey |-> pubkey, message |-> message]
          /\ ret' = verify_public(pubkey, sig, message).res
          /\ trace' = verify_public(pubkey, sig, message).calls
    /\ op' = "verify_public"
    /\ pc' = "done"
    /\ UNCHANGED <<sig, made, wire>>

\* recover and Sign::recover on the Signature held
Recover ==
    /\ pc = "have"
    /\ \E message \in MsgInputs :
          /\ arg' = [message |-> message]
          /\ ret' = recover(sig, message).res
          /\ trace' = recover(sig, message).calls
    /\ op' = "recover"
    /\ pc' = "done"
    /\ UNCHANGED <<sig, made, wire>>

Next ==
    \/ FromRsv
    \/ DoSign
    \/ VerifyPublic
    \/ Recover
    \/ IsLowS
    \/ IsValid
    \/ RlpAppend
    \/ RlpDecode
    \/ FromSlice
    \/ Serialize
    \/ Deserialize

Spec == Init /\ [][Next]_vars

(***************************************************************************)
(* Properties.                                                             *)
(***************************************************************************)
InRange(x) == AtMost(<<At.zero, 1>>, x) /\ Less(x, <<At.order, 0>>)

\* C1: is_valid() returns true iff v is 0 or 1 and 1 <= r < n and 1 <= s < n;
\* it never fails.
C1_IsValidIffInRange ==
    (op = "is_valid" /\ made.by = "from_rsv")
        => ret = Ok(made.v \in {0, 1} /\ InRange(made.r) /\ InRange(made.s))

\* C2: is_low_s() returns true iff s <= floor(n / 2), whatever r and v are.
C2_IsLowSIffAtMostHalf ==
    (op = "is_low_s" /\ made.by = "from_rsv")
        => ret = Ok(AtMost(made.s, <<At.half, 0>>))

C2_Witness ==
    /\ op = "is_low_s" /\ made.by = "from_rsv"
    /\ made.s = <<At.half, 0>> /\ made.r = <<At.all_ones, 0>> /\ made.v = 255
    /\ ret = Ok(TRUE)

\* C3: encoding a Signature with either adapter and decoding the result gives
\* the Signature back, byte for byte; and re-encoding what was decoded from the
\* encoding of a 65-byte buffer gives that encoding back.
C3_RoundTrip ==
    /\ (op = "decode" /\ arg.input = "encoded") => ret = Ok(sig)
    /\ (op = "deserialize" /\ arg.input = "encoded") => ret.res = Ok(sig)
    /\ (op = "decode" /\ arg.input = "outside" /\ ret.kind = "ok")
           => rlp_append(ret.val) = wire
    /\ (op = "deserialize" /\ arg.input = "outside" /\ Len(wire) = SIGNATURE_BYTES_LEN)
           => ret.res.kind = "ok" /\ serialize(ret.res.val).elems = wire

C3_Witness ==
    /\ op = "decode" /\ arg.input = "encoded"
    /\ made.by = "from_rsv" /\ made.r = <<At.order, -1>>
    /\ ret = Ok(sig)

\* C4: a signature that sign produced verifies against the public key of its
\* private key and its message: verify_public returns Ok(true).
C4_SignThenVerify ==
    (op = "verify_public" /\ made.by = "sign"
        /\ arg.pubkey = pubkey_of(made.privkey) /\ arg.message = made.message)
        => ret = Ok(TRUE)

C4_Witness ==
    /\ op = "verify_public" /\ made.by = "sign" /\ made.api = "Sign::sign"
    /\ arg.pubkey = pubkey_of(made.privkey) /\ arg.message = made.message
    /\ v(sig) >= 2
    /\ ret = Ok(TRUE)

\* C5: recovering from a signature that sign produced, with its message, returns
\* the 64-byte public key of its private key.
C5_SignThenRecover ==
    (op = "recover" /\ made.by = "sign" /\ arg.message = made.message)
        => ret = Ok(pubkey_of(made.privkey))

C5_Witness ==
    /\ op = "recover" /\ made.by = "sign" /\ arg.message = made.message
    /\ v(sig) = 1
    /\ ret = Ok(pubkey_of(made.privkey))

EngineFailed(call) == call.out.kind # "ok" /\ call.out # Err("IncorrectSignature")

\* C6: verify_public returns Ok(false) exactly when the engine's verify step
\* reports an incorrect signature; any other failure on the way is an Err.
C6_NegativeIsNotError ==
    op = "verify_public" =>
        LET last == trace[Len(trace)] IN
        /\ ret = Ok(FALSE)
              <=> (last.fn = "verify_ecdsa" /\ last.out = Err("IncorrectSignature"))
        /\ ret = Ok(TRUE) <=> (last.fn = "verify_ecdsa" /\ last.out.kind = "ok")
        /\ (\E i \in 1..Len(trace) : EngineFailed(trace[i])) => ret.kind = "err"

C6_Witness ==
    /\ op = "verify_public" /\ made.by = "sign"
    /\ arg.message # made.message
    /\ ret = Ok(FALSE)

\* C8: sign with a private key that is zero or not below the group order returns
\* Err, from the free function and from Sign::sign.
C8_InvalidKeyIsErr ==
    (op = "sign" /\ ~ValidSecret(made.privkey)) => ret.kind = "err"

\* C9: recover on a signature whose recovery byte is not 0, 1, 2 or 3 fails with
\* the invalid-recovery-id error before the engine is asked to parse or recover.
C9_BadRecoveryId ==
    (op = "recover" /\ v(sig) \notin 0..3)
        => /\ ret = Err("InvalidRecoveryId")
           /\ \A i \in 1..Len(trace) :
                  trace[i].fn \notin {"from_compact", "Message::from_slice", "recover_ecdsa"}

C9_Witness ==
    /\ op = "recover" /\ v(sig) = 4
    /\ ret = Err("InvalidRecoveryId")
    /\ Len(trace) = 1

\* C7: decoding the binary encoding of a byte string whose length is not 65 is
\* an error result, never a panic and never a Signature.
C7_WrongLengthIsErr ==
    (op = "decode" /\ decode_value(wire).kind = "ok"
                   /\ Len(decode_value(wire).val) # SIGNATURE_BYTES_LEN)
        => ret.kind = "err"

\* C10: the element sequence is read 65 elements long: fewer is an invalid-length
\* error; with 65 or more the result is the Signature of the first 65 and the
\* rest is not consumed.
C10_SequenceLength ==
    op = "deserialize" =>
        IF Len(wire) < SIGNATURE_BYTES_LEN
        THEN ret.res = Err([invalid_length |-> SIGNATURE_BYTES_LEN])
        ELSE /\ ret.res = from_bytes(SubSeq(wire, 1, SIGNATURE_BYTES_LEN))
             /\ ret.consumed = SIGNATURE_BYTES_LEN

C10_Witness ==
    /\ op = "deserialize" /\ arg.input = "outside"
    /\ Len(wire) = SIGNATURE_BYTES_LEN + 1
    /\ ret.res.kind = "ok" /\ ret.consumed = SIGNATURE_BYTES_LEN

====
